---- MODULE Spec2Model ----
(***************************************************************************)
(* Verification model of the lumo wallet core: the gap-limit bounded       *)
(* address reveal/cycle algorithm (Wallet::get_new_address) and the        *)
(* in-memory wallet registry (WalletManager).                              *)
(***************************************************************************)
EXTENDS Integers, Sequences, FiniteSets, TLC

(***************************************************************************)
(* Program constants and model bounds                                      *)
(***************************************************************************)
GAP_LIMIT == 30

MAX_ADDRESSES == GAP_LIMIT - 5

\* At most this many external addresses receive funds in a run.
MaxUsed == 2

\* Number of wallet ids the registry model distinguishes.
NumWalletIds == 2

\* Number of threads that call the write operations concurrently.
NumWriters == 2

\* External indices below this one get revealed in the runs that peek at,
\* list and reload a session.
MaxRevealed == 3

\* Largest sent and received amount, in satoshi, of a projected transaction.
MaxAmount == 4

\* Number of callers that share one wallet session.
NumCallers == 2

(***************************************************************************)
(* State                                                                   *)
(***************************************************************************)
VARIABLES
    last_revealed,      \* engine: last revealed external index, -1 = none
    used,               \* engine: external indices the engine marks used
    addr_ret,           \* result of the latest get_new_address call
    calls,              \* get_new_address calls so far, saturating at MAX_ADDRESSES + 2
    handed,             \* addresses returned by get_new_address so far
    cycled,             \* some get_new_address call took the cycle branch
    wallets,            \* WalletManager.wallets
    active_wallet_id,   \* WalletManager.active_wallet_id
    persisted,          \* wallet ids that have a persisted engine store
    mgr_ret,            \* result of the latest registry call
    replaced,           \* the latest registry call replaced a loaded session
    loaded_ok,          \* ids whose add_wallet or load_existing_wallet call succeeded
    tables,             \* store file: table name -> (key -> value); <<>> = no file yet
    db_open,            \* the process holds the database handle
    db_ret,             \* result of the latest table operation
    saved,              \* id -> metadata of the latest committed save of that id
    chosen,             \* id of the latest committed selection, NoWallet if none or cleared
    overwrote,          \* what the latest save met under its key: "absent", "other", "same"
    txn,                \* thread -> its open transaction: position, operation, view, cursor, result
    balance,            \* engine: total balance of the session, in satoshi
    wallet_ret,         \* result of the latest read-only call on the session
    type_ret,           \* result of the latest call on a value type
    funded,             \* chain: external indices whose address received funds
    callers,            \* caller -> its position in get_new_address and the list it collected
    exclusive           \* callers hold the wallet exclusively for a whole call

addr_vars == <<last_revealed, used, addr_ret, calls, handed, cycled>>

mgr_vars == <<wallets, active_wallet_id, persisted, mgr_ret, replaced, loaded_ok>>

db_vars == <<tables, db_open, db_ret, saved, chosen, overwrote, txn>>

ext_vars == <<balance, wallet_ret, type_ret>>

chain_vars == <<funded>>

call_vars == <<callers, exclusive>>

vars == <<last_revealed, used, addr_ret, calls, handed, cycled,
          wallets, active_wallet_id, persisted, mgr_ret, replaced, loaded_ok,
          tables, db_open, db_ret, saved, chosen, overwrote, txn,
          balance, wallet_ret, type_ret,
          funded, callers, exclusive>>

None == "None"

\* Option<WalletId>::None of the active pointer; wallet ids are 1..NumWalletIds.
NoWallet == 0

(***************************************************************************)
(* Chain wallet engine, external keychain                                  *)
(***************************************************************************)
MinOf(S) == CHOOSE m \in S : \A x \in S : m <= x

\* The address derived at an external index; derivation is injective.
Derive(index) == <<"wpkh-ext", index>>

peek_address(index) == [index |-> index, address |-> Derive(index)]

\* Revealed indices from..lr the engine has not marked used, in increasing
\* index order.
RECURSIVE UnusedFrom(_, _, _)
UnusedFrom(from, lr, u) ==
    IF from > lr THEN <<>>
    ELSE IF from \in u THEN UnusedFrom(from + 1, lr, u)
    ELSE <<peek_address(from)>> \o UnusedFrom(from + 1, lr, u)

list_unused_addresses(lr, u) == UnusedFrom(0, lr, u)

reveal_next_address(lr) == [info |-> peek_address(lr + 1), last_revealed |-> lr + 1]

Take(s, n) == IF Len(s) <= n THEN s ELSE SubSeq(s, 1, n)

(***************************************************************************)
(* Wallet::get_new_address                                                 *)
(***************************************************************************)
CollectUnused(lr, u) == Take(list_unused_addresses(lr, u), MAX_ADDRESSES)

BelowMaxOffByOne(unused_addresses) == Len(unused_addresses) <= MAX_ADDRESSES

BelowMaxShort(unused_addresses) == Len(unused_addresses) < MAX_ADDRESSES - 1

BelowMaxAlways(unused_addresses) == TRUE

BelowMaxNever(unused_addresses) == FALSE

BelowMax(unused_addresses) == Len(unused_addresses) < MAX_ADDRESSES

FirstUnusedLast(unused_addresses) == unused_addresses[Len(unused_addresses)]

FirstUnusedRotating(unused_addresses) ==
    unused_addresses[(calls % Len(unused_addresses)) + 1]

FirstUnused(unused_addresses) == unused_addresses[1]

\* The outcome of one call: the branch taken, the AddressInfo behind the
\* returned address and the engine's last revealed index afterwards.
NewAddressOutcome(lr, u) ==
    LET unused_addresses == CollectUnused(lr, u)
    IN  IF BelowMax(unused_addresses)
        THEN [branch |-> "reveal",
              info |-> reveal_next_address(lr).info,
              last_revealed |-> reveal_next_address(lr).last_revealed]
        ELSE IF unused_addresses # <<>>
        THEN [branch |-> "cycle",
              info |-> FirstUnused(unused_addresses),
              last_revealed |-> lr]
        ELSE [branch |-> "fallback",
              info |-> reveal_next_address(lr).info,
              last_revealed |-> reveal_next_address(lr).last_revealed]

get_new_address ==
    LET out == NewAddressOutcome(last_revealed, used)
    IN  /\ last_revealed' = out.last_revealed
        /\ addr_ret' = [branch |-> out.branch,
                        index |-> out.info.index,
                        address |-> out.info.address]
        /\ calls' = IF calls <= MAX_ADDRESSES + 1 THEN calls + 1 ELSE calls
        /\ handed' = handed \cup {out.info.address}
        /\ cycled' = (cycled \/ out.branch = "cycle")
        /\ UNCHANGED used
        /\ UNCHANGED <<mgr_vars, db_vars, ext_vars, chain_vars, call_vars>>

(***************************************************************************)
(* Wallet::sync: the applied chain update marks a handed-out address used  *)
(***************************************************************************)
sync(i) ==
    /\ i \in 0..last_revealed
    /\ i \notin used
    /\ Cardinality(used) < MaxUsed
    /\ used' = used \cup {i}
    /\ UNCHANGED <<last_revealed, addr_ret, calls, handed, cycled>>
    /\ UNCHANGED <<mgr_vars, db_vars, ext_vars, chain_vars, call_vars>>

(***************************************************************************)
(* Wallet sessions and the transaction projection (Wallet::transactions)   *)
(***************************************************************************)
WalletIds == 1..NumWalletIds

Networks == {"Testnet", "Bitcoin"}

\* Wallet names are token sequences, so that a formatted name is comparable.
Names == {<<"A">>}

Unconfirmed == [kind |-> "Unconfirmed", height |-> 0]

Confirmed(h) == [kind |-> "Confirmed", height |-> h]

\* Canonical transaction lists an engine handle can hold: none yet, or a
\* scanned history with a receive, a spend and an equal-amount transaction.
ScannedHistory ==
    << [txid |-> 1, sent |-> 0, received |-> 5, chain_position |-> Unconfirmed],
       [txid |-> 2, sent |-> 7, received |-> 2, chain_position |-> Confirmed(100)],
       [txid |-> 3, sent |-> 4, received |-> 4, chain_position |-> Confirmed(101)] >>

Histories == {<<>>, ScannedHistory}

DirectionNeverOutgoing(sent, received) == "Incoming"

DirectionOutgoingOnEqual(sent, received) ==
    IF sent >= received THEN "Outgoing" ELSE "Incoming"

Direction(sent, received) == IF sent > received THEN "Outgoing" ELSE "Incoming"

ProjectedAmountAlwaysReceived(direction, sent, received) == received

ProjectedAmount(direction, sent, received) ==
    IF direction = "Incoming" THEN received ELSE sent

ProjectTx(canonical_tx) ==
    LET sent == canonical_tx.sent
        received == canonical_tx.received
        direction == Direction(sent, received)
    IN  [id |-> canonical_tx.txid,
         amount |-> ProjectedAmount(direction, sent, received),
         direction |-> direction,
         confirmation_status |->
             IF canonical_tx.chain_position.kind = "Unconfirmed"
             THEN [kind |-> "Unconfirmed", block_height |-> 0]
             ELSE [kind |-> "Confirmed",
                   block_height |-> canonical_tx.chain_position.height],
         timestamp |-> None]

transactions(wallet) == [k \in 1..Len(wallet.bdk.txs) |-> ProjectTx(wallet.bdk.txs[k])]

MakeWallet(id, name, network, created_at, txs) ==
    [id |-> id,
     metadata |-> [id |-> id, name |-> name, network |-> network,
                   created_at |-> created_at],
     bdk |-> [txs |-> txs]]

\* A session built by Wallet::new_random / new_from_mnemonic.
CreatedWallet(id, name, network, txs) == MakeWallet(id, name, network, "t_create", txs)

\* The session try_load_persisted builds once the engine state was loaded.
LoadedWallet(id, network) ==
    MakeWallet(id, <<"Loaded Wallet", id>>, network, "t_load", <<>>)

\* Sessions that can exist for the ids that have an engine store: created
\* ones (possibly synced since) and ones loaded from the store.
WalletValues(stored) ==
    {CreatedWallet(id, n, nw, h) : id \in stored, n \in Names, nw \in Networks, h \in Histories}
    \cup {LoadedWallet(id, nw) : id \in stored, nw \in Networks}

Ok(op, v) == [op |-> op, ok |-> TRUE, kind |-> "Ok", value |-> v]

Err(op, kind, msg) == [op |-> op, ok |-> FALSE, kind |-> kind, value |-> msg]

(***************************************************************************)
(* Wallet::new_random and Wallet::try_load_persisted                       *)
(***************************************************************************)
\* Creating a wallet draws a fresh id and creates its engine store.
new_random(id, name, network) ==
    /\ id \notin persisted
    /\ persisted' = persisted \cup {id}
    /\ mgr_ret' = Ok("new_random", CreatedWallet(id, name, network, <<>>))
    /\ replaced' = FALSE
    /\ UNCHANGED <<wallets, active_wallet_id, loaded_ok>>
    /\ UNCHANGED <<addr_vars, db_vars, ext_vars, chain_vars, call_vars>>

TryLoadUnchecked(stored, wallet_id, network, io) ==
    IF io = "open_failed"
    THEN Err("load", "Generic", "unable to open rusqlite connection")
    ELSE IF io = "load_failed"
    THEN Err("load", "Bdk", "load error")
    ELSE Ok("load", LoadedWallet(wallet_id, network))

\* io is what the storage layer does: "ok", "open_failed" (the connection
\* cannot be opened) or "load_failed" (the engine rejects the stored data).
\* Opening the store of an id that has none creates an empty store file, from
\* which the engine again loads nothing.
try_load_persisted(stored, wallet_id, network, io) ==
    IF io = "open_failed"
    THEN Err("load", "Generic", "unable to open rusqlite connection")
    ELSE IF io = "load_failed"
    THEN Err("load", "Bdk", "load error")
    ELSE IF wallet_id \notin stored
    THEN Err("load", "WalletNotFound", "Wallet not found")
    ELSE Ok("load", LoadedWallet(wallet_id, network))

(***************************************************************************)
(* WalletManager                                                           *)
(***************************************************************************)
insert(map, key, value) ==
    [k \in (DOMAIN map) \cup {key} |-> IF k = key THEN value ELSE map[k]]

contains_key_unchecked(map, key) == TRUE

contains_key(map, key) == key \in DOMAIN map

ActiveAfterAddAlways(active, wallet_id) == wallet_id

ActiveAfterAdd(active, wallet_id) == IF active = NoWallet THEN wallet_id ELSE active

\* The argument is a session the caller owns, so its engine store exists.
add_wallet(wallet) ==
    LET wallet_id == wallet.id
    IN  /\ wallet_id \in persisted
        /\ wallets' = insert(wallets, wallet_id, wallet)
        /\ active_wallet_id' = ActiveAfterAdd(active_wallet_id, wallet_id)
        /\ mgr_ret' = Ok("add_wallet", wallet_id)
        /\ replaced' = (wallet_id \in DOMAIN wallets)
        /\ loaded_ok' = loaded_ok \cup {wallet_id}
        /\ UNCHANGED persisted
        /\ UNCHANGED <<addr_vars, db_vars, ext_vars, chain_vars, call_vars>>

ActiveAfterLoadFirst(active, wallet_id) == IF active = NoWallet THEN wallet_id ELSE active

\* load_existing_wallet does not assign the active pointer.
ActiveAfterLoad(active, wallet_id) == active

load_existing_wallet(wallet_id, network, io) ==
    LET loaded == try_load_persisted(persisted, wallet_id, network, io)
    IN  /\ IF loaded.ok
           THEN /\ wallets' = insert(wallets, wallet_id, loaded.value)
                /\ mgr_ret' = Ok("load_existing_wallet", "unit")
                /\ replaced' = (wallet_id \in DOMAIN wallets)
                /\ loaded_ok' = loaded_ok \cup {wallet_id}
           ELSE /\ wallets' = wallets
                /\ mgr_ret' = [loaded EXCEPT !.op = "load_existing_wallet"]
                /\ replaced' = FALSE
                /\ loaded_ok' = loaded_ok
        /\ active_wallet_id' = ActiveAfterLoad(active_wallet_id, wallet_id)
        /\ UNCHANGED persisted
        /\ UNCHANGED <<addr_vars, db_vars, ext_vars, chain_vars, call_vars>>

GetTransactionsResultAnyWallet(map, wallet_id) ==
    IF map # <<>>
    THEN Ok("get_transactions", transactions(map[CHOOSE k \in DOMAIN map : TRUE]))
    ELSE Err("get_transactions", "WalletNotFound", <<"Wallet not found", wallet_id>>)

GetTransactionsResult(map, wallet_id) ==
    IF wallet_id \in DOMAIN map
    THEN Ok("get_transactions", transactions(map[wallet_id]))
    ELSE Err("get_transactions", "WalletNotFound", <<"Wallet not found", wallet_id>>)

get_transactions(wallet_id) ==
    /\ mgr_ret' = GetTransactionsResult(wallets, wallet_id)
    /\ replaced' = FALSE
    /\ UNCHANGED <<wallets, active_wallet_id, persisted, loaded_ok>>
    /\ UNCHANGED <<addr_vars, db_vars, ext_vars, chain_vars, call_vars>>

set_active_wallet(wallet_id) ==
    /\ IF contains_key(wallets, wallet_id)
       THEN /\ active_wallet_id' = wallet_id
            /\ mgr_ret' = Ok("set_active_wallet", "unit")
       ELSE /\ active_wallet_id' = active_wallet_id
            /\ mgr_ret' = Err("set_active_wallet", "WalletNotFound",
                              <<"Wallet not found", wallet_id>>)
    /\ replaced' = FALSE
    /\ UNCHANGED <<wallets, persisted, loaded_ok>>
    /\ UNCHANGED <<addr_vars, db_vars, ext_vars, chain_vars, call_vars>>

ActiveWalletResultFirst(map, active) ==
    IF map = <<>>
    THEN Err("active_wallet", "Generic", "No active wallet")
    ELSE Ok("active_wallet", map[CHOOSE k \in DOMAIN map : \A j \in DOMAIN map : k <= j])

ActiveWalletResult(map, active) ==
    IF active = NoWallet
    THEN Err("active_wallet", "Generic", "No active wallet")
    ELSE IF active \in DOMAIN map
    THEN Ok("active_wallet", map[active])
    ELSE Err("active_wallet", "WalletNotFound", <<"Active wallet not found", active>>)

active_wallet ==
    /\ mgr_ret' = ActiveWalletResult(wallets, active_wallet_id)
    /\ replaced' = FALSE
    /\ UNCHANGED <<wallets, active_wallet_id, persisted, loaded_ok>>
    /\ UNCHANGED <<addr_vars, db_vars, ext_vars, chain_vars, call_vars>>

\* Every order in which the ids of a set can be listed.
Orderings(S) ==
    {s \in [1..Cardinality(S) -> S] : \A i, j \in 1..Cardinality(S) : s[i] = s[j] => i = j}

ListWalletIdsSkipFirst(map) == Orderings({k \in DOMAIN map : \E j \in DOMAIN map : j < k})

\* The vectors list_wallet_ids can return: the keys of the hash map, in
\* whatever order the map iterates them.
ListWalletIds(map) == Orderings(DOMAIN map)

list_wallet_ids ==
    /\ \E ids \in ListWalletIds(wallets) : mgr_ret' = Ok("list_wallet_ids", ids)
    /\ replaced' = FALSE
    /\ UNCHANGED <<wallets, active_wallet_id, persisted, loaded_ok>>
    /\ UNCHANGED <<addr_vars, db_vars, ext_vars, chain_vars, call_vars>>

(***************************************************************************)
(* Record codec: WalletId strings and the JSON form of WalletMetadata      *)
(***************************************************************************)
WalletTypes == {"Hot", "Cold", "XpubOnly"}

NoFingerprint == [some |-> FALSE, v |-> ""]

SomeFingerprint(fp) == [some |-> TRUE, v |-> fp]

\* Metadata values a caller can save under an id.
MetadataValues(ids) ==
    {[id |-> id, name |-> "A", network |-> "Testnet", created_at |-> "t1",
      wallet_type |-> "Hot", master_fingerprint |-> NoFingerprint] : id \in ids}
    \cup
    {[id |-> id, name |-> "B", network |-> "Bitcoin", created_at |-> "t2",
      wallet_type |-> "Cold", master_fingerprint |-> SomeFingerprint("73c5da0a")] : id \in ids}
    \cup
    {[id |-> id, name |-> "A", network |-> "Bitcoin", created_at |-> "t2",
      wallet_type |-> "XpubOnly", master_fingerprint |-> NoFingerprint] : id \in ids}

\* Display of a WalletId: the canonical string of its uuid.
to_string(id) == <<"uuid", id>>

\* WalletId::from_string: the id, or NoWallet when the string is no uuid.
from_string(str) == IF Len(str) = 2 /\ str[1] = "uuid" THEN str[2] ELSE NoWallet

JsonString(x) == <<"string", x>>

JsonNull == <<"null">>

\* serde_json::to_string of a WalletMetadata: one JSON member per field.
to_json(wallet) ==
    [id |-> JsonString(to_string(wallet.id)),
     name |-> JsonString(wallet.name),
     network |-> JsonString(wallet.network),
     created_at |-> JsonString(wallet.created_at),
     wallet_type |-> JsonString(wallet.wallet_type),
     master_fingerprint |-> IF wallet.master_fingerprint.some
                            THEN JsonString(wallet.master_fingerprint.v)
                            ELSE JsonNull]

\* Members serde accepts for WalletMetadata.
JsonDecodable(json) ==
    /\ json.id[1] = "string" /\ from_string(json.id[2]) # NoWallet
    /\ json.name[1] = "string"
    /\ json.network[1] = "string" /\ json.network[2] \in Networks
    /\ json.created_at[1] = "string"
    /\ json.wallet_type[1] = "string" /\ json.wallet_type[2] \in WalletTypes

FromJsonDropFingerprint(json) ==
    [id |-> from_string(json.id[2]),
     name |-> json.name[2],
     network |-> json.network[2],
     created_at |-> json.created_at[2],
     wallet_type |-> json.wallet_type[2],
     master_fingerprint |-> NoFingerprint]

\* serde_json::from_str into a WalletMetadata (of a decodable value).
from_json(json) ==
    [id |-> from_string(json.id[2]),
     name |-> json.name[2],
     network |-> json.network[2],
     created_at |-> json.created_at[2],
     wallet_type |-> json.wallet_type[2],
     master_fingerprint |-> IF json.master_fingerprint = JsonNull
                            THEN NoFingerprint
                            ELSE SomeFingerprint(json.master_fingerprint[2])]

(***************************************************************************)
(* Transactional table store                                               *)
(***************************************************************************)
WALLET_METADATA == "wallet_metadata"

GLOBAL_CONFIG == "global_config"

SELECTED_WALLET_ID == "selected_wallet_id"

\* Where a transaction can fail: nowhere, at begin, when opening the table,
\* when accessing it, or at commit.
WriteFailPoints == {"none", "begin", "open_table", "access", "commit"}

ReadFailPoints == {"none", "begin", "open_table", "access"}

ErrorKindAllRedb(fail) == "RedbError"

\* The DatabaseError variant the From conversions give a failure.
ErrorKind(fail) == IF fail = "commit" THEN "WriteError" ELSE "RedbError"

\* A write transaction opening a table creates it when it is missing.
open_table(tbls, name) ==
    IF name \in DOMAIN tbls THEN tbls
    ELSE [t \in (DOMAIN tbls) \cup {name} |-> IF t = name THEN <<>> ELSE tbls[t]]

table_insert_if_absent(tbls, name, key, value) ==
    IF key \in DOMAIN tbls[name] THEN tbls
    ELSE [tbls EXCEPT ![name] = insert(tbls[name], key, value)]

table_insert_known_wallet(tbls, name, key, value) ==
    IF name = GLOBAL_CONFIG /\ value \notin DOMAIN tbls[WALLET_METADATA] THEN tbls
    ELSE [tbls EXCEPT ![name] = insert(tbls[name], key, value)]

\* redb insert: sets the value of the key, replacing a value already there.
table_insert(tbls, name, key, value) ==
    [tbls EXCEPT ![name] = insert(tbls[name], key, value)]

table_remove(tbls, name, key) ==
    [tbls EXCEPT ![name] = [k \in (DOMAIN tbls[name]) \ {key} |-> tbls[name][k]]]

CommitKeepsFailed(committed, pending, fail) ==
    IF fail \in {"none", "commit"} THEN pending ELSE committed

\* The committed state after a write transaction: its mutations when nothing
\* failed, the state before it otherwise.
Commit(committed, pending, fail) == IF fail = "none" THEN pending ELSE committed

WriteResult(op, fail) ==
    IF fail = "none" THEN Ok(op, "unit") ELSE Err(op, ErrorKind(fail), fail)

(***************************************************************************)
(* Database::init and process exit                                         *)
(***************************************************************************)
InitTablesRecreate(tbls) ==
    [t \in {WALLET_METADATA, GLOBAL_CONFIG} |-> <<>>]

\* The tables after init: the file is opened when it exists and created
\* otherwise, and both tables are opened in one write transaction.
InitTables(tbls) == open_table(open_table(tbls, WALLET_METADATA), GLOBAL_CONFIG)

init ==
    /\ ~db_open
    /\ tables' = InitTables(tables)
    /\ db_open' = TRUE
    /\ db_ret' = Ok("init", "unit")
    /\ overwrote' = "absent"
    /\ UNCHANGED <<saved, chosen>>
    /\ UNCHANGED <<addr_vars, mgr_vars, txn, ext_vars, chain_vars, call_vars>>

exit ==
    /\ db_open
    /\ db_open' = FALSE
    /\ db_ret' = [op |-> "exit"]
    /\ overwrote' = "absent"
    /\ UNCHANGED <<tables, saved, chosen>>
    /\ UNCHANGED <<addr_vars, mgr_vars, txn, ext_vars, chain_vars, call_vars>>

(***************************************************************************)
(* WalletsTable                                                            *)
(***************************************************************************)
save_new_wallet_metadata(wallet, fail) ==
    LET key == to_string(wallet.id)
        pending == table_insert(tables, WALLET_METADATA, key, to_json(wallet))
        done == (fail = "none")
    IN  /\ db_open
        /\ tables' = Commit(tables, pending, fail)
        /\ db_ret' = WriteResult("save_new_wallet_metadata", fail)
        /\ saved' = IF done THEN insert(saved, wallet.id, wallet) ELSE saved
        /\ overwrote' = IF ~done \/ key \notin DOMAIN tables[WALLET_METADATA] THEN "absent"
                        ELSE IF tables[WALLET_METADATA][key] = to_json(wallet) THEN "same"
                        ELSE "other"
        /\ UNCHANGED <<db_open, chosen>>
        /\ UNCHANGED <<addr_vars, mgr_vars, txn, ext_vars, chain_vars, call_vars>>

\* Option values: <<>> is None, <<x>> is Some(x).
GetResultAnyKey(tbls, id, fail) ==
    LET table == tbls[WALLET_METADATA]
    IN  IF fail # "none" THEN Err("get", ErrorKind(fail), fail)
        ELSE IF table = <<>> THEN Ok("get", <<>>)
        ELSE Ok("get", <<from_json(table[CHOOSE k \in DOMAIN table : TRUE])>>)

GetResult(tbls, id, fail) ==
    LET table == tbls[WALLET_METADATA]
        key == to_string(id)
    IN  IF fail # "none" THEN Err("get", ErrorKind(fail), fail)
        ELSE IF key \notin DOMAIN table THEN Ok("get", <<>>)
        ELSE IF ~JsonDecodable(table[key])
        THEN Err("get", "SerializationError", "undecodable value")
        ELSE Ok("get", <<from_json(table[key])>>)

get(id, fail) ==
    /\ db_open
    /\ db_ret' = GetResult(tables, id, fail)
    /\ overwrote' = "absent"
    /\ UNCHANGED <<tables, db_open, saved, chosen>>
    /\ UNCHANGED <<addr_vars, mgr_vars, txn, ext_vars, chain_vars, call_vars>>

NetworkMatchesAlways(wallet, network) == TRUE

\* The filter of get_all; None passes every record.
NetworkMatches(wallet, network) == network = None \/ wallet.network = network

\* The records from key to_string(i) on, in key order, that pass the filter;
\* "SerializationError" in place of the list when a value does not decode.
RECURSIVE ScanFrom(_, _, _)
ScanFrom(table, i, network) ==
    IF i > NumWalletIds THEN <<>>
    ELSE IF to_string(i) \notin DOMAIN table THEN ScanFrom(table, i + 1, network)
    ELSE LET rest == ScanFrom(table, i + 1, network)
             json == table[to_string(i)]
         IN  IF ~JsonDecodable(json) \/ rest = "SerializationError"
             THEN "SerializationError"
             ELSE IF NetworkMatches(from_json(json), network)
             THEN <<from_json(json)>> \o rest
             ELSE rest

GetAllResult(tbls, network, fail) ==
    LET found == ScanFrom(tbls[WALLET_METADATA], 1, network)
    IN  IF fail # "none" THEN Err("get_all", ErrorKind(fail), fail)
        ELSE IF found = "SerializationError"
        THEN Err("get_all", "SerializationError", "undecodable value")
        ELSE Ok("get_all", found)

get_all(network, fail) ==
    /\ db_open
    /\ db_ret' = GetAllResult(tables, network, fail)
    /\ overwrote' = "absent"
    /\ UNCHANGED <<tables, db_open, saved, chosen>>
    /\ UNCHANGED <<addr_vars, mgr_vars, txn, ext_vars, chain_vars, call_vars>>

(***************************************************************************)
(* GlobalConfigTable                                                       *)
(***************************************************************************)
select_wallet(wallet_id, fail) ==
    LET pending == table_insert(tables, GLOBAL_CONFIG, SELECTED_WALLET_ID,
                                to_string(wallet_id))
    IN  /\ db_open
        /\ tables' = Commit(tables, pending, fail)
        /\ db_ret' = WriteResult("select_wallet", fail)
        /\ chosen' = IF fail = "none" THEN wallet_id ELSE chosen
        /\ overwrote' = "absent"
        /\ UNCHANGED <<db_open, saved>>
        /\ UNCHANGED <<addr_vars, mgr_vars, txn, ext_vars, chain_vars, call_vars>>

SelectedWalletResultStale(tbls, fail) ==
    IF fail # "none" THEN Err("selected_wallet", ErrorKind(fail), fail)
    ELSE Ok("selected_wallet", <<>>)

SelectedWalletResult(tbls, fail) ==
    LET table == tbls[GLOBAL_CONFIG]
    IN  IF fail # "none" THEN Err("selected_wallet", ErrorKind(fail), fail)
        ELSE IF SELECTED_WALLET_ID \notin DOMAIN table THEN Ok("selected_wallet", <<>>)
        ELSE IF from_string(table[SELECTED_WALLET_ID]) = NoWallet
        THEN Err("selected_wallet", "ReadError", "Invalid wallet ID")
        ELSE Ok("selected_wallet", <<from_string(table[SELECTED_WALLET_ID])>>)

selected_wallet(fail) ==
    /\ db_open
    /\ db_ret' = SelectedWalletResult(tables, fail)
    /\ overwrote' = "absent"
    /\ UNCHANGED <<tables, db_open, saved, chosen>>
    /\ UNCHANGED <<addr_vars, mgr_vars, txn, ext_vars, chain_vars, call_vars>>

clear_selected_wallet(fail) ==
    LET pending == table_remove(tables, GLOBAL_CONFIG, SELECTED_WALLET_ID)
    IN  /\ db_open
        /\ tables' = Commit(tables, pending, fail)
        /\ db_ret' = WriteResult("clear_selected_wallet", fail)
        /\ chosen' = IF fail = "none" THEN NoWallet ELSE chosen
        /\ overwrote' = "absent"
        /\ UNCHANGED <<db_open, saved>>
        /\ UNCHANGED <<addr_vars, mgr_vars, txn, ext_vars, chain_vars, call_vars>>

(***************************************************************************)
(* Concurrent callers: each table operation as the steps of its            *)
(* transaction                                                             *)
(***************************************************************************)
Reader == 0

Writers == 1..NumWriters

Threads == {Reader} \cup Writers

Idle == [pc |-> "idle", op |-> None, arg |-> None, view |-> <<>>, cursor |-> 0, acc |-> <<>>]

\* Metadata values the concurrent callers save: one value per id.
TxnMetadataValues == {m \in MetadataValues(WalletIds) : m.name = "A" /\ m.wallet_type = "Hot"}

WriteOps ==
    {[name |-> "save_new_wallet_metadata", arg |-> m] : m \in TxnMetadataValues}
    \cup {[name |-> "select_wallet", arg |-> id] : id \in WalletIds}
    \cup {[name |-> "clear_selected_wallet", arg |-> None]}

ReadOps ==
    {[name |-> "get", arg |-> id] : id \in WalletIds}
    \cup {[name |-> "get_all", arg |-> None]}
    \cup {[name |-> "selected_wallet", arg |-> None]}

\* The mutation a write operation makes inside its transaction.
Mutate(tbls, name, arg) ==
    IF name = "save_new_wallet_metadata"
    THEN table_insert(tbls, WALLET_METADATA, to_string(arg.id), to_json(arg))
    ELSE IF name = "select_wallet"
    THEN table_insert(tbls, GLOBAL_CONFIG, SELECTED_WALLET_ID, to_string(arg))
    ELSE table_remove(tbls, GLOBAL_CONFIG, SELECTED_WALLET_ID)

WriteOpen(t) == txn[t].pc \in {"write", "ready"}

CanBeginWriteAlways(t) == TRUE

\* begin_write waits while another write transaction is open.
CanBeginWrite(t) == \A u \in Threads \ {t} : ~WriteOpen(u)

\* begin_write: the transaction works on a private copy of the committed tables.
begin_write(t, op) ==
    /\ db_open
    /\ txn[t].pc = "idle"
    /\ CanBeginWrite(t)
    /\ txn' = [txn EXCEPT ![t] = [pc |-> "write", op |-> op.name, arg |-> op.arg,
                                  view |-> tables, cursor |-> 0, acc |-> <<>>]]
    /\ UNCHANGED <<tables, db_open, db_ret, saved, chosen, overwrote>>
    /\ UNCHANGED <<addr_vars, mgr_vars, ext_vars, chain_vars, call_vars>>

\* open_table and insert / remove inside the write transaction.
write_mutate(t) ==
    /\ txn[t].pc = "write"
    /\ txn' = [txn EXCEPT ![t].pc = "ready",
                          ![t].view = Mutate(txn[t].view, txn[t].op, txn[t].arg)]
    /\ UNCHANGED <<tables, db_open, db_ret, saved, chosen, overwrote>>
    /\ UNCHANGED <<addr_vars, mgr_vars, ext_vars, chain_vars, call_vars>>

\* commit: the private copy becomes the committed tables.
write_commit(t) ==
    /\ txn[t].pc = "ready"
    /\ tables' = Commit(tables, txn[t].view, "none")
    /\ saved' = IF txn[t].op = "save_new_wallet_metadata"
                THEN insert(saved, txn[t].arg.id, txn[t].arg) ELSE saved
    /\ chosen' = IF txn[t].op = "select_wallet" THEN txn[t].arg
                 ELSE IF txn[t].op = "clear_selected_wallet" THEN NoWallet
                 ELSE chosen
    /\ db_ret' = Ok("write", "unit")
    /\ txn' = [txn EXCEPT ![t] = Idle]
    /\ UNCHANGED <<db_open, overwrote>>
    /\ UNCHANGED <<addr_vars, mgr_vars, ext_vars, chain_vars, call_vars>>

\* A failing open_table, insert, remove or commit returns its error with `?`:
\* the transaction is dropped uncommitted.
write_abort(t) ==
    /\ WriteOpen(t)
    /\ db_ret' = Err("write", "DatabaseError", "dropped")
    /\ txn' = [txn EXCEPT ![t] = Idle]
    /\ UNCHANGED <<tables, db_open, saved, chosen, overwrote>>
    /\ UNCHANGED <<addr_vars, mgr_vars, ext_vars, chain_vars, call_vars>>

\* begin_read never waits; the transaction reads the tables committed when
\* it began.
begin_read(t, op) ==
    /\ db_open
    /\ txn[t].pc = "idle"
    /\ txn' = [txn EXCEPT ![t] = [pc |-> "read", op |-> op.name, arg |-> op.arg,
                                  view |-> tables, cursor |-> 1, acc |-> <<>>]]
    /\ UNCHANGED <<tables, db_open, db_ret, saved, chosen, overwrote>>
    /\ UNCHANGED <<addr_vars, mgr_vars, ext_vars, chain_vars, call_vars>>

ReadViewLatest(t) == tables

\* The tables a read transaction sees.
ReadView(t) == txn[t].view

\* One lookup of get or selected_wallet, or one item of the iteration of
\* get_all; the last one completes the result.
ReadStep(t) ==
    LET r == txn[t]
        wallets_table == ReadView(t)[WALLET_METADATA]
        config_table == ReadView(t)[GLOBAL_CONFIG]
        key == to_string(r.cursor)
    IN  IF r.op = "get"
        THEN [r EXCEPT !.pc = "done",
                       !.acc = IF to_string(r.arg) \in DOMAIN wallets_table
                               THEN <<from_json(wallets_table[to_string(r.arg)])>>
                               ELSE <<>>]
        ELSE IF r.op = "selected_wallet"
        THEN [r EXCEPT !.pc = "done",
                       !.acc = IF SELECTED_WALLET_ID \in DOMAIN config_table
                               THEN <<from_string(config_table[SELECTED_WALLET_ID])>>
                               ELSE <<>>]
        ELSE [r EXCEPT !.pc = IF r.cursor = NumWalletIds THEN "done" ELSE "read",
                       !.cursor = r.cursor + 1,
                       !.acc = IF key \in DOMAIN wallets_table
                                  /\ NetworkMatches(from_json(wallets_table[key]), r.arg)
                               THEN Append(r.acc, from_json(wallets_table[key]))
                               ELSE r.acc]

read_step(t) ==
    /\ txn[t].pc = "read"
    /\ txn' = [txn EXCEPT ![t] = ReadStep(t)]
    /\ UNCHANGED <<tables, db_open, db_ret, saved, chosen, overwrote>>
    /\ UNCHANGED <<addr_vars, mgr_vars, ext_vars, chain_vars, call_vars>>

\* The operation returns: the completed result txn[t].acc, or the error of a
\* failed open_table or lookup; the read transaction ends.
read_return(t) ==
    /\ txn[t].pc \in {"read", "done"}
    /\ db_ret' = IF txn[t].pc = "done" THEN Ok("read", "returned")
                 ELSE Err("read", "DatabaseError", "dropped")
    /\ txn' = [txn EXCEPT ![t] = Idle]
    /\ UNCHANGED <<tables, db_open, saved, chosen, overwrote>>
    /\ UNCHANGED <<addr_vars, mgr_vars, ext_vars, chain_vars, call_vars>>

(***************************************************************************)
(* Read-only address calls, usage inference and reload of a session        *)
(***************************************************************************)
MaxOf(S) == CHOOSE m \in S : \A x \in S : m >= x

\* Display of an address, as compared and reported by the wallet.
AddressString(address) == <<"bech32", address>>

\* What the engine store holds for the wallet: create_wallet writes the
\* initial change set, and nothing staged later is ever written.
PersistedEngine == [last_revealed |-> -1, used |-> {}, balance |-> 0]

\* A chain update applied by sync: funds arrived at external index i. The
\* engine marks the index used and reveals up to it.
sync_receive(i) ==
    /\ i \notin used
    /\ Cardinality(used) < MaxUsed
    /\ used' = used \cup {i}
    /\ last_revealed' = IF i > last_revealed THEN i ELSE last_revealed
    /\ balance' = balance + 1
    /\ UNCHANGED <<addr_ret, calls, handed, cycled, wallet_ret, type_ret>>
    /\ UNCHANGED <<mgr_vars, db_vars, chain_vars, call_vars>>

\* A chain update applied by sync: the wallet's funds were all spent.
sync_spend ==
    /\ balance > 0
    /\ balance' = 0
    /\ UNCHANGED <<addr_vars, wallet_ret, type_ret>>
    /\ UNCHANGED <<mgr_vars, db_vars, chain_vars, call_vars>>

PeekOutcomeReveals(lr, index) ==
    [info |-> peek_address(index),
     last_revealed |-> IF index > lr THEN index ELSE lr]

\* The engine's peek: the address at the index, and the last revealed index
\* left as it is.
PeekOutcome(lr, index) == [info |-> peek_address(index), last_revealed |-> lr]

CurrentIndexLastRevealed(lr) == IF lr < 0 THEN 0 ELSE lr

\* The index get_current_address peeks.
CurrentIndex(lr) == 0

get_current_address ==
    LET out == PeekOutcome(last_revealed, CurrentIndex(last_revealed))
    IN  /\ wallet_ret' = Ok("get_current_address", out.info.address)
        /\ last_revealed' = out.last_revealed
        /\ UNCHANGED <<used, addr_ret, calls, handed, cycled, balance, type_ret>>
        /\ UNCHANGED <<mgr_vars, db_vars, chain_vars, call_vars>>

address_at(index) ==
    LET out == PeekOutcome(last_revealed, index)
    IN  /\ wallet_ret' = Ok("address_at", out.info.address)
        /\ last_revealed' = out.last_revealed
        /\ UNCHANGED <<used, addr_ret, calls, handed, cycled, balance, type_ret>>
        /\ UNCHANGED <<mgr_vars, db_vars, chain_vars, call_vars>>

IsAddressUsedNoShortCut(lr, u, bal, address) ==
    \A k \in DOMAIN list_unused_addresses(lr, u) :
        AddressString(list_unused_addresses(lr, u)[k].address) # AddressString(address)

IsAddressUsed(lr, u, bal, address) ==
    IF bal = 0 THEN FALSE
    ELSE \A k \in DOMAIN list_unused_addresses(lr, u) :
             AddressString(list_unused_addresses(lr, u)[k].address) # AddressString(address)

is_address_used(address) ==
    /\ wallet_ret' = Ok("is_address_used", IsAddressUsed(last_revealed, used, balance, address))
    /\ UNCHANGED <<addr_vars, balance, type_ret>>
    /\ UNCHANGED <<mgr_vars, db_vars, chain_vars, call_vars>>

AddressInfoAt(lr, u, bal, i) ==
    [address |-> AddressString(peek_address(i).address),
     index |-> peek_address(i).index,
     is_used |-> IsAddressUsed(lr, u, bal, peek_address(i).address),
     balance |-> 0]

GetAllAddresses(lr, u, bal) ==
    LET unused_addresses == list_unused_addresses(lr, u)
        max_revealed_index ==
            MaxOf({unused_addresses[k].index : k \in DOMAIN unused_addresses})
    IN  IF unused_addresses = <<>>
        THEN <<AddressInfoAt(lr, u, bal, 0)>>
        ELSE [k \in 1..(max_revealed_index + 1) |-> AddressInfoAt(lr, u, bal, k - 1)]

get_all_addresses ==
    /\ wallet_ret' = Ok("get_all_addresses", GetAllAddresses(last_revealed, used, balance))
    /\ UNCHANGED <<addr_vars, balance, type_ret>>
    /\ UNCHANGED <<mgr_vars, db_vars, chain_vars, call_vars>>

\* The session is dropped and try_load_persisted builds a new one for the
\* same id from the engine store.
drop_and_reload ==
    /\ last_revealed' = PersistedEngine.last_revealed
    /\ used' = PersistedEngine.used
    /\ balance' = PersistedEngine.balance
    /\ wallet_ret' = Ok("try_load_persisted", "session")
    /\ addr_ret' = [branch |-> None, index |-> -1, address |-> None]
    /\ calls' = 0
    /\ handed' = {}
    /\ cycled' = FALSE
    /\ UNCHANGED type_ret
    /\ UNCHANGED <<mgr_vars, db_vars, chain_vars, call_vars>>

(***************************************************************************)
(* Value types: the projection of one transaction, Transaction::           *)
(* confirmations on u32 heights, and the WalletMetadata constructors       *)
(***************************************************************************)
\* The projection applied to one canonical transaction of the engine.
project(sent, received, chain_position) ==
    LET canonical_tx == [txid |-> 1, sent |-> sent, received |-> received,
                         chain_position |-> chain_position]
    IN  /\ type_ret' = [op |-> "project", input |-> canonical_tx,
                        value |-> ProjectTx(canonical_tx)]
        /\ UNCHANGED <<balance, wallet_ret>>
        /\ UNCHANGED <<addr_vars, mgr_vars, db_vars, chain_vars, call_vars>>

\* A u32 is kept as two 16-bit halves, hi * HALF + lo.
HALF == 65536

U32(hi, lo) == [hi |-> hi, lo |-> lo]

U32_ZERO == U32(0, 0)

U32_MAX == U32(HALF - 1, HALF - 1)

U32Less(a, b) == a.hi < b.hi \/ (a.hi = b.hi /\ a.lo < b.lo)

\* u32::saturating_sub: a - b, or 0 when b is not below a.
saturating_sub(a, b) ==
    IF ~U32Less(b, a) THEN U32_ZERO
    ELSE IF a.lo >= b.lo THEN U32(a.hi - b.hi, a.lo - b.lo)
    ELSE U32(a.hi - b.hi - 1, a.lo + HALF - b.lo)

\* a + 1 on u32: at u32::MAX a build with overflow checks panics and a build
\* without them wraps to 0.
AddOne(a, build) ==
    IF a = U32_MAX
    THEN IF build = "debug"
         THEN [outcome |-> "panic", value |-> U32_ZERO]
         ELSE [outcome |-> "returned", value |-> U32_ZERO]
    ELSE IF a.lo = HALF - 1
    THEN [outcome |-> "returned", value |-> U32(a.hi + 1, 0)]
    ELSE [outcome |-> "returned", value |-> U32(a.hi, a.lo + 1)]

Confirmations(confirmation_status, current_height, build) ==
    IF confirmation_status.kind = "Unconfirmed"
    THEN [outcome |-> "returned", value |-> U32_ZERO]
    ELSE AddOne(saturating_sub(current_height, confirmation_status.block_height), build)

confirmations(confirmation_status, current_height, build) ==
    /\ type_ret' = [op |-> "confirmations",
                    input |-> [confirmation_status |-> confirmation_status,
                               current_height |-> current_height],
                    value |-> Confirmations(confirmation_status, current_height, build)]
    /\ UNCHANGED <<balance, wallet_ret>>
    /\ UNCHANGED <<addr_vars, mgr_vars, db_vars, chain_vars, call_vars>>

\* Heights at the ends and in the middle of the u32 range.
HalfValues == {0, 1, HALF - 1}

Heights == {U32(hi, lo) : hi \in HalfValues, lo \in HalfValues}

ConfirmationStatuses ==
    {[kind |-> "Unconfirmed", block_height |-> U32_ZERO]}
    \cup {[kind |-> "Confirmed", block_height |-> h] : h \in Heights}

can_sign(wallet_type) == wallet_type \in {"Hot", "Cold"}

new(id, name, network) ==
    [id |-> id, name |-> name, network |-> network, created_at |-> "now",
     wallet_type |-> "Hot", master_fingerprint |-> NoFingerprint]

new_for_hardware(id, name, network, fingerprint) ==
    [id |-> id, name |-> name, network |-> network, created_at |-> "now",
     wallet_type |-> "Cold", master_fingerprint |-> fingerprint]

new_imported_from_mnemonic(id, name, network, fingerprint) ==
    [id |-> id, name |-> name, network |-> network, created_at |-> "now",
     wallet_type |-> "Hot", master_fingerprint |-> fingerprint]

new_from_xpub(id, name, network, fingerprint) ==
    [id |-> id, name |-> name, network |-> network, created_at |-> "now",
     wallet_type |-> IF fingerprint.some THEN "Cold" ELSE "XpubOnly",
     master_fingerprint |-> fingerprint]

Constructors == {"new", "new_for_hardware", "new_imported_from_mnemonic", "new_from_xpub"}

Fingerprints == {NoFingerprint, SomeFingerprint("73c5da0a")}

\* A call of one of the WalletMetadata constructors; new draws a fresh id and
\* takes no fingerprint.
construct(constructor, id, name, network, fingerprint) ==
    /\ constructor = "new" => fingerprint = NoFingerprint
    /\ type_ret' = [op |-> constructor,
                    input |-> fingerprint,
                    value |-> IF constructor = "new" THEN new(id, name, network)
                              ELSE IF constructor = "new_for_hardware"
                              THEN new_for_hardware(id, name, network, fingerprint)
                              ELSE IF constructor = "new_imported_from_mnemonic"
                              THEN new_imported_from_mnemonic(id, name, network, fingerprint)
                              ELSE new_from_xpub(id, name, network, fingerprint)]
    /\ UNCHANGED <<balance, wallet_ret>>
    /\ UNCHANGED <<addr_vars, mgr_vars, db_vars, chain_vars, call_vars>>

(***************************************************************************)
(* Wallet::sync as a full scan of the chain with stop gap GAP_LIMIT        *)
(***************************************************************************)
\* Funds arrive on the chain at an address the session handed out.
receive(i) ==
    /\ Derive(i) \in handed
    /\ i \notin funded
    /\ Cardinality(funded) < MaxUsed
    /\ funded' = funded \cup {i}
    /\ UNCHANGED <<addr_vars, mgr_vars, db_vars, ext_vars, call_vars>>

\* The active indices a scan finds from index on, having met run inactive
\* indices in a row; it gives up after stop_gap inactive ones.
RECURSIVE ScanFound(_, _, _, _)
ScanFound(chain, stop_gap, index, run) ==
    IF run >= stop_gap THEN {}
    ELSE IF index \in chain THEN {index} \cup ScanFound(chain, stop_gap, index + 1, 0)
    ELSE ScanFound(chain, stop_gap, index + 1, run + 1)

full_scan(chain, stop_gap) == ScanFound(chain, stop_gap, 0, 0)

\* The engine applies a scan result: it reveals up to the last active index
\* and marks the active indices used.
apply_update(lr, u, bal, scan_result) ==
    [last_revealed |-> IF scan_result # {} /\ MaxOf(scan_result) > lr
                       THEN MaxOf(scan_result) ELSE lr,
     used |-> u \cup scan_result,
     balance |-> Cardinality(u \cup scan_result)]

\* Where a sync can stop: nowhere, when the client is built, during the scan
\* (also by cancellation or timeout), or when the engine rejects the update.
SyncSteps == {"ok", "client_failed", "scan_failed", "apply_failed"}

SyncOutcomeAppliesPartial(lr, u, bal, chain, step) ==
    IF step \in {"client_failed", "apply_failed"}
    THEN [result |-> Err("sync", "Generic", step),
          engine |-> [last_revealed |-> lr, used |-> u, balance |-> bal]]
    ELSE IF step = "scan_failed"
    THEN [result |-> Err("sync", "Generic", step),
          engine |-> apply_update(lr, u, bal, full_scan(chain, 1))]
    ELSE [result |-> Ok("sync", "unit"),
          engine |-> apply_update(lr, u, bal, full_scan(chain, GAP_LIMIT))]

\* The result of one sync and the engine state it leaves.
SyncOutcome(lr, u, bal, chain, step) ==
    IF step # "ok"
    THEN [result |-> Err("sync", "Generic", step),
          engine |-> [last_revealed |-> lr, used |-> u, balance |-> bal]]
    ELSE [result |-> Ok("sync", "unit"),
          engine |-> apply_update(lr, u, bal, full_scan(chain, GAP_LIMIT))]

sync_full_scan(step) ==
    LET out == SyncOutcome(last_revealed, used, balance, funded, step)
    IN  /\ wallet_ret' = out.result
        /\ last_revealed' = out.engine.last_revealed
        /\ used' = out.engine.used
        /\ balance' = out.engine.balance
        /\ UNCHANGED <<addr_ret, calls, handed, cycled, type_ret>>
        /\ UNCHANGED <<mgr_vars, db_vars, chain_vars, call_vars>>

(***************************************************************************)
(* Wallet::get_new_address as the two steps of a caller: collecting the    *)
(* unused list, then revealing or cycling on what it collected             *)
(***************************************************************************)
Callers == 1..NumCallers

IdleCaller == [pc |-> "idle", unused_addresses |-> <<>>]

CanEnterAlways(t) == TRUE

\* A caller that holds the wallet exclusively, as the &mut self receiver
\* asks, enters only while no other call is under way.
CanEnter(t) == ~exclusive \/ \A o \in Callers : callers[o].pc = "idle"

collect_unused(t) ==
    /\ callers[t].pc = "idle"
    /\ CanEnter(t)
    /\ callers' = [callers EXCEPT ![t] =
                       [pc |-> "collected",
                        unused_addresses |-> CollectUnused(last_revealed, used)]]
    /\ UNCHANGED exclusive
    /\ UNCHANGED <<addr_vars, mgr_vars, db_vars, ext_vars, chain_vars>>

\* The branch taken on a collected list, with the engine as it is now.
Decide(lr, unused_addresses) ==
    IF BelowMax(unused_addresses)
    THEN [branch |-> "reveal",
          info |-> reveal_next_address(lr).info,
          last_revealed |-> reveal_next_address(lr).last_revealed]
    ELSE IF unused_addresses # <<>>
    THEN [branch |-> "cycle",
          info |-> FirstUnused(unused_addresses),
          last_revealed |-> lr]
    ELSE [branch |-> "fallback",
          info |-> reveal_next_address(lr).info,
          last_revealed |-> reveal_next_address(lr).last_revealed]

reveal_or_cycle(t) ==
    LET out == Decide(last_revealed, callers[t].unused_addresses)
    IN  /\ callers[t].pc = "collected"
        /\ last_revealed' = out.last_revealed
        /\ addr_ret' = [branch |-> out.branch,
                        index |-> out.info.index,
                        address |-> out.info.address]
        /\ calls' = IF calls <= MAX_ADDRESSES + 1 THEN calls + 1 ELSE calls
        /\ handed' = handed \cup {out.info.address}
        /\ cycled' = (cycled \/ out.branch = "cycle")
        /\ callers' = [callers EXCEPT ![t] = IdleCaller]
        /\ UNCHANGED <<used, exclusive>>
        /\ UNCHANGED <<mgr_vars, db_vars, ext_vars, chain_vars>>

(***************************************************************************)
(* Specifications                                                          *)
(***************************************************************************)
InitAddr ==
    /\ last_revealed = -1
    /\ used = {}
    /\ addr_ret = [branch |-> None, index |-> -1, address |-> None]
    /\ calls = 0
    /\ handed = {}
    /\ cycled = FALSE

InitMgr ==
    /\ wallets = <<>>
    /\ active_wallet_id = NoWallet
    /\ persisted = {}
    /\ mgr_ret = [op |-> None]
    /\ replaced = FALSE
    /\ loaded_ok = {}

InitDb ==
    /\ tables = <<>>
    /\ db_open = FALSE
    /\ db_ret = [op |-> None]
    /\ saved = <<>>
    /\ chosen = NoWallet
    /\ overwrote = "absent"
    /\ txn = [t \in Threads |-> Idle]

InitExt ==
    /\ balance = 0
    /\ wallet_ret = [op |-> None]
    /\ type_ret = [op |-> None]

InitCalls ==
    /\ funded = {}
    /\ callers = [t \in Callers |-> IdleCaller]
    /\ exclusive = TRUE

Init == InitAddr /\ InitMgr /\ InitDb /\ InitExt /\ InitCalls

NextAddr ==
    \/ get_new_address
    \/ \E i \in 0..(MAX_ADDRESSES + MaxUsed) : sync(i)

SpecAddr == Init /\ [][NextAddr]_vars

IoOutcomes == {"ok", "open_failed", "load_failed"}

NextMgr ==
    \/ \E id \in WalletIds, name \in Names, network \in Networks :
           new_random(id, name, network)
    \/ \E wallet \in WalletValues(WalletIds) : add_wallet(wallet)
    \/ \E id \in WalletIds, network \in Networks, io \in IoOutcomes :
           load_existing_wallet(id, network, io)
    \/ \E id \in WalletIds : get_transactions(id)
    \/ \E id \in WalletIds : set_active_wallet(id)
    \/ active_wallet
    \/ list_wallet_ids

SpecMgr == Init /\ [][NextMgr]_vars

NextDb ==
    \/ init
    \/ exit
    \/ \E wallet \in MetadataValues(WalletIds), fail \in WriteFailPoints :
           save_new_wallet_metadata(wallet, fail)
    \/ \E id \in WalletIds, fail \in ReadFailPoints : get(id, fail)
    \/ \E network \in Networks \cup {None}, fail \in ReadFailPoints : get_all(network, fail)
    \/ \E id \in WalletIds, fail \in WriteFailPoints : select_wallet(id, fail)
    \/ \E fail \in ReadFailPoints : selected_wallet(fail)
    \/ \E fail \in WriteFailPoints : clear_selected_wallet(fail)

SpecDb == Init /\ [][NextDb]_vars

\* A metadata value written under another schema: its network is no variant
\* of Network.
ForeignJson(id) == [to_json(new(id, "A", "Testnet")) EXCEPT !.network = JsonString("Liquid")]

\* Store files the process can find at start: none, or one whose tables hold
\* a value this version cannot decode.
StoreFiles ==
    {<<>>}
    \cup {[t \in {WALLET_METADATA, GLOBAL_CONFIG} |->
              IF t = WALLET_METADATA THEN [k \in {to_string(id)} |-> ForeignJson(id)]
              ELSE <<>>] : id \in WalletIds}
    \cup {[t \in {WALLET_METADATA, GLOBAL_CONFIG} |->
              IF t = GLOBAL_CONFIG THEN [k \in {SELECTED_WALLET_ID} |-> <<"not-a-uuid">>]
              ELSE <<>>]}

InitDbFound ==
    /\ tables \in StoreFiles
    /\ db_open = FALSE
    /\ db_ret = [op |-> None]
    /\ saved = <<>>
    /\ chosen = NoWallet
    /\ overwrote = "absent"
    /\ txn = [t \in Threads |-> Idle]

InitFound == InitAddr /\ InitMgr /\ InitDbFound /\ InitExt /\ InitCalls

SpecDbFound == InitFound /\ [][NextDb]_vars

NextTxn ==
    \/ init
    \/ \E t \in Writers, op \in WriteOps : begin_write(t, op)
    \/ \E t \in Writers : write_mutate(t)
    \/ \E t \in Writers : write_commit(t)
    \/ \E t \in Writers : write_abort(t)
    \/ \E op \in ReadOps : begin_read(Reader, op)
    \/ read_step(Reader)
    \/ read_return(Reader)

SpecTxn == Init /\ [][NextTxn]_vars

NextSession ==
    \/ (last_revealed + 1 < MaxRevealed /\ get_new_address)
    \/ \E i \in 0..(MaxRevealed - 1) : sync_receive(i)
    \/ sync_spend
    \/ get_current_address
    \/ \E index \in 0..MaxRevealed : address_at(index)
    \/ \E index \in 0..MaxRevealed : is_address_used(peek_address(index).address)
    \/ get_all_addresses
    \/ drop_and_reload

SpecSession == Init /\ [][NextSession]_vars

NextTypes ==
    \/ \E sent \in 0..MaxAmount, received \in 0..MaxAmount,
          chain_position \in {Unconfirmed, Confirmed(100)} :
           project(sent, received, chain_position)
    \/ \E confirmation_status \in ConfirmationStatuses, current_height \in Heights,
          build \in {"debug", "release"} :
           confirmations(confirmation_status, current_height, build)
    \/ \E constructor \in Constructors, id \in WalletIds, name \in {"A", "B"},
          network \in Networks, fingerprint \in Fingerprints :
           construct(constructor, id, name, network, fingerprint)

SpecTypes == Init /\ [][NextTypes]_vars

\* Indices whose address gets paid: the lowest ones, the last one of the
\* first MAX_ADDRESSES and the first one beyond them.
PaidIndices == {0, 1, MAX_ADDRESSES - 1, MAX_ADDRESSES}

NextGap ==
    \/ get_new_address
    \/ \E i \in PaidIndices : receive(i)
    \/ \E step \in SyncSteps : sync_full_scan(step)
    \/ drop_and_reload

SpecGap == Init /\ [][NextGap]_vars

\* The callers either all hold the wallet exclusively for a call or none does.
InitRaceCalls ==
    /\ funded = {}
    /\ callers = [t \in Callers |-> IdleCaller]
    /\ exclusive \in BOOLEAN

InitRace == InitAddr /\ InitMgr /\ InitDb /\ InitExt /\ InitRaceCalls

NextRace ==
    \/ \E t \in Callers : collect_unused(t)
    \/ \E t \in Callers : reveal_or_cycle(t)

SpecRace == InitRace /\ [][NextRace]_vars

NextLoad ==
    \/ init
    \/ \E wallet \in MetadataValues(WalletIds), fail \in WriteFailPoints :
           save_new_wallet_metadata(wallet, fail)
    \/ \E id \in WalletIds, name \in Names, network \in Networks :
           new_random(id, name, network)
    \/ \E id \in WalletIds, network \in Networks, io \in IoOutcomes :
           load_existing_wallet(id, network, io)

SpecLoad == Init /\ [][NextLoad]_vars

(***************************************************************************)
(* Address lifecycle properties                                            *)
(***************************************************************************)
UnusedRevealed == {i \in 0..last_revealed : i \notin used}

RevealedAddresses == {Derive(i) : i \in 0..last_revealed}

C2_CycleAtMaxRevealsNothing ==
    [][(get_new_address /\ last_revealed = MAX_ADDRESSES - 1 /\ used = {})
         => /\ last_revealed' = last_revealed
            /\ addr_ret'.address \in RevealedAddresses]_vars

C2_Witness ==
    /\ last_revealed = MAX_ADDRESSES - 1
    /\ used = {}
    /\ addr_ret.branch = "cycle"
    /\ calls = MAX_ADDRESSES + 1

\* C3: on a fresh wallet each of the first MAX_ADDRESSES calls returns an
\* address no earlier call returned, and the index behind the returned
\* address is strictly larger than the one of the previous call.
C3_FirstMaxCallsDistinctIncreasing ==
    [][(get_new_address /\ calls < MAX_ADDRESSES)
         => /\ addr_ret'.address \notin handed
            /\ addr_ret'.index > addr_ret.index
            /\ addr_ret'.index = last_revealed'
            /\ last_revealed' > last_revealed]_vars

C3_Witness ==
    /\ calls = MAX_ADDRESSES
    /\ Cardinality(handed) = MAX_ADDRESSES
    /\ addr_ret.index = MAX_ADDRESSES - 1

\* C4: whenever fewer than MAX_ADDRESSES revealed addresses are unused, a
\* get_new_address call returns the address at (highest revealed index + 1)
\* and raises the highest revealed index by exactly one.
C4_BelowMaxRevealsNext ==
    [][(get_new_address /\ Cardinality(UnusedRevealed) < MAX_ADDRESSES)
         => /\ last_revealed' = last_revealed + 1
            /\ addr_ret'.index = last_revealed + 1
            /\ addr_ret'.address = Derive(last_revealed + 1)]_vars

\* A reveal that happened after cycling had begun and an address became used.
C4_Witness ==
    /\ cycled
    /\ used # {}
    /\ addr_ret.branch = "reveal"
    /\ addr_ret.index = last_revealed
    /\ last_revealed >= MAX_ADDRESSES

\* C5: when the unused pool is already at MAX_ADDRESSES, get_new_address
\* returns the unused revealed address with the lowest index.
C5_CycleReturnsLowestUnused ==
    [][(get_new_address /\ Cardinality(UnusedRevealed) >= MAX_ADDRESSES)
         => /\ addr_ret'.index = MinOf(UnusedRevealed)
            /\ addr_ret'.address = Derive(MinOf(UnusedRevealed))]_vars

\* A cycle whose lowest unused index is not index 0.
C5_Witness ==
    /\ addr_ret.branch = "cycle"
    /\ 0 \in used
    /\ addr_ret.index = MinOf(UnusedRevealed)
    /\ addr_ret.index > 0

(***************************************************************************)
(* Wallet registry properties                                              *)
(***************************************************************************)
Loaded == DOMAIN wallets

\* C6: in every reachable registry state the active pointer is unset or is
\* a key of the session map.
C6_ActiveIsLoaded == active_wallet_id = NoWallet \/ active_wallet_id \in Loaded

\* A failed set_active_wallet just returned while a pointer is set, some
\* session is loaded and some id is not.
C6_Witness ==
    /\ mgr_ret.op = "set_active_wallet"
    /\ ~mgr_ret.ok
    /\ active_wallet_id # NoWallet
    /\ Loaded # {}
    /\ Loaded # WalletIds

\* C7: add_wallet stores the session under its id, keeps every other
\* session, returns the id, and makes the id active exactly when no wallet
\* was active before the call.
C7_AddWallet ==
    [][\A w \in WalletValues(WalletIds) :
         add_wallet(w)
           => /\ DOMAIN wallets' = Loaded \cup {w.id}
              /\ wallets'[w.id] = w
              /\ \A k \in Loaded \ {w.id} : wallets'[k] = wallets[k]
              /\ mgr_ret'.ok /\ mgr_ret'.value = w.id
              /\ (active_wallet_id = NoWallet => active_wallet_id' = w.id)
              /\ (active_wallet_id # NoWallet => active_wallet_id' = active_wallet_id)]_vars

\* An add_wallet replaced a loaded session while another wallet was active.
C7_Witness ==
    /\ mgr_ret.op = "add_wallet"
    /\ replaced
    /\ active_wallet_id # NoWallet
    /\ active_wallet_id # mgr_ret.value

\* C8: set_active_wallet(id) succeeds and points at id iff id is loaded;
\* otherwise it fails with WalletNotFound and changes neither the pointer
\* nor the session map.
C8_SetActiveWallet ==
    [][\A id \in WalletIds :
         set_active_wallet(id)
           => /\ (mgr_ret'.ok <=> id \in Loaded)
              /\ (id \in Loaded => active_wallet_id' = id)
              /\ (id \notin Loaded
                    => /\ mgr_ret'.kind = "WalletNotFound"
                       /\ active_wallet_id' = active_wallet_id)
              /\ wallets' = wallets]_vars

C8_Witness ==
    /\ mgr_ret.op = "set_active_wallet"
    /\ mgr_ret.kind = "WalletNotFound"
    /\ active_wallet_id # NoWallet
    /\ Loaded # {}

\* C9: active_wallet fails with the generic "No active wallet" error iff no
\* pointer is set, otherwise returns the session stored under the active id;
\* it never fails with WalletNotFound.
C9_ActiveWallet ==
    [][active_wallet
         => /\ (active_wallet_id = NoWallet
                  <=> (~mgr_ret'.ok /\ mgr_ret'.kind = "Generic"))
            /\ (~mgr_ret'.ok => mgr_ret'.value = "No active wallet")
            /\ (active_wallet_id # NoWallet
                  => mgr_ret'.ok /\ mgr_ret'.value = wallets[active_wallet_id])
            /\ mgr_ret'.kind # "WalletNotFound"]_vars

\* active_wallet returned the active session although it is not the only
\* one loaded and not the one with the lowest id.
C9_Witness ==
    /\ mgr_ret.op = "active_wallet"
    /\ mgr_ret.ok
    /\ mgr_ret.value = wallets[active_wallet_id]
    /\ \E k \in Loaded : k < active_wallet_id /\ wallets[k] # wallets[active_wallet_id]

\* The domain transaction the projector emits for one canonical transaction.
IsProjected(t, c) ==
    /\ t.id = c.txid
    /\ t.direction = (IF c.sent > c.received THEN "Outgoing" ELSE "Incoming")
    /\ t.amount = (IF c.sent > c.received THEN c.sent ELSE c.received)
    /\ t.confirmation_status.kind = c.chain_position.kind
    /\ (c.chain_position.kind = "Confirmed"
          => t.confirmation_status.block_height = c.chain_position.height)

\* C10: get_transactions(id) fails with WalletNotFound iff id is not loaded,
\* returns the projection of that session's transactions otherwise, and
\* leaves the session map and the active pointer unchanged.
C10_GetTransactions ==
    [][\A id \in WalletIds :
         get_transactions(id)
           => /\ (id \notin Loaded
                    <=> (~mgr_ret'.ok /\ mgr_ret'.kind = "WalletNotFound"))
              /\ (id \in Loaded
                    => /\ mgr_ret'.ok
                       /\ Len(mgr_ret'.value) = Len(wallets[id].bdk.txs)
                       /\ \A k \in 1..Len(mgr_ret'.value) :
                            IsProjected(mgr_ret'.value[k], wallets[id].bdk.txs[k]))
              /\ wallets' = wallets
              /\ active_wallet_id' = active_wallet_id]_vars

\* A non-empty projection came back while another loaded session holds a
\* different transaction list.
C10_Witness ==
    /\ mgr_ret.op = "get_transactions"
    /\ mgr_ret.ok
    /\ Len(mgr_ret.value) = 3
    /\ \E k \in Loaded : wallets[k].bdk.txs = <<>>

Range(s) == {s[i] : i \in DOMAIN s}

\* C11: list_wallet_ids returns exactly the ids whose add_wallet or
\* load_existing_wallet call succeeded, each id once; ids that are only
\* persisted do not appear.
C11_ListWalletIds ==
    [][list_wallet_ids
         => /\ Range(mgr_ret'.value) = loaded_ok
            /\ Len(mgr_ret'.value) = Cardinality(loaded_ok)
            /\ \A id \in persisted \ loaded_ok : id \notin Range(mgr_ret'.value)]_vars

\* The list holds one id while another id is persisted but was never loaded
\* (a load of it failed or was never tried).
C11_Witness ==
    /\ mgr_ret.op = "list_wallet_ids"
    /\ Len(mgr_ret.value) = 1
    /\ persisted \ loaded_ok # {}
    /\ Range(mgr_ret.value) = loaded_ok

\* C12 as stated: loading an id without persisted engine state fails with
\* WalletNotFound and with no other error kind.
C12_OnlyWalletNotFound ==
    [][\A id \in WalletIds, nw \in Networks, io \in IoOutcomes :
         (load_existing_wallet(id, nw, io) /\ id \notin persisted)
           => ~mgr_ret'.ok /\ mgr_ret'.kind = "WalletNotFound"]_vars

\* C12, amended: loading an id without persisted engine state fails on every
\* attempt and inserts no session; the error is WalletNotFound whenever the
\* engine store can be opened and read, Generic when the store cannot be
\* opened and Bdk when the engine fails to read it.
C12_NotFoundWhenStoreReadable ==
    [][\A id \in WalletIds, nw \in Networks, io \in IoOutcomes :
         (load_existing_wallet(id, nw, io) /\ id \notin persisted)
           => /\ ~mgr_ret'.ok
              /\ wallets' = wallets
              /\ persisted' = persisted
              /\ (io = "ok" => mgr_ret'.kind = "WalletNotFound")
              /\ (io = "open_failed" => mgr_ret'.kind = "Generic")
              /\ (io = "load_failed" => mgr_ret'.kind = "Bdk")]_vars

\* A load just failed with WalletNotFound; the id still has no engine state,
\* so the same attempt can be repeated from this state and ends in it again.
C12_Witness ==
    /\ mgr_ret.op = "load_existing_wallet"
    /\ persisted # {}
    /\ mgr_ret.kind = "WalletNotFound"
    /\ persisted # WalletIds
    /\ \E id \in WalletIds \ persisted :
         try_load_persisted(persisted, id, "Testnet", "ok").kind = "WalletNotFound"

(***************************************************************************)
(* Claims about the metadata and configuration tables                      *)
(***************************************************************************)
\* What a successful read of the option value x returns.
Some(x) == <<x>>

\* The records of the latest committed saves.
SavedRecords == {saved[i] : i \in DOMAIN saved}

\* C13: after save_new(m), get(m.id) returns Some(m') with m' equal to m in
\* every field (id, name, network, created_at, wallet_type,
\* master_fingerprint), and get of an id that was never saved returns None.
C13_SaveGetRoundTrip ==
    [][\A id \in WalletIds :
         get(id, "none")
           => /\ id \in DOMAIN saved =>
                   /\ db_ret' = Ok("get", Some(saved[id]))
                   /\ \A f \in {"id", "name", "network", "created_at",
                                "wallet_type", "master_fingerprint"} :
                        db_ret'.value[1][f] = saved[id][f]
              /\ id \notin DOMAIN saved => db_ret' = Ok("get", <<>>)]_vars

C13_Witness ==
    /\ db_ret.op = "get"
    /\ db_ret.ok
    /\ db_ret.value # <<>>
    /\ db_ret.value[1].master_fingerprint.some
    /\ db_ret.value[1] \in SavedRecords
    /\ DOMAIN saved # WalletIds

\* C14: get_all(Some(n)) returns exactly the stored records whose network is
\* n, and get_all(None) returns every stored record, one per distinct id.
C14_GetAllFilter ==
    [][\A network \in Networks \cup {None} :
         get_all(network, "none")
           => /\ db_ret'.ok
              /\ Range(db_ret'.value)
                   = {m \in SavedRecords : network = None \/ m.network = network}
              /\ \A i, j \in DOMAIN db_ret'.value :
                   db_ret'.value[i].id = db_ret'.value[j].id => i = j]_vars

C14_Witness ==
    /\ db_ret.op = "get_all"
    /\ db_ret.ok
    /\ Len(db_ret.value) = 1
    /\ Cardinality(DOMAIN saved) = 2
    /\ \E i, j \in DOMAIN saved : saved[i].network # saved[j].network

\* C15: selected_wallet() returns Some(id) of the most recent select_wallet
\* when no clear followed it, and None when nothing was ever selected or the
\* most recent write was a clear; clearing an absent selection succeeds and
\* changes nothing.
C15_SelectedWallet ==
    [][/\ selected_wallet("none")
            => db_ret' = Ok("selected_wallet",
                            IF chosen = NoWallet THEN <<>> ELSE Some(chosen))
       /\ (clear_selected_wallet("none") /\ chosen = NoWallet)
            => /\ db_ret'.ok
               /\ tables' = tables
               /\ SelectedWalletResult(tables', "none") = Ok("selected_wallet", <<>>)]_vars

C15_Witness ==
    /\ db_ret.op = "selected_wallet"
    /\ db_ret.ok
    /\ db_ret.value = Some(chosen)
    /\ chosen # NoWallet

\* C16: committed state survives a restart: Database::init on an existing
\* file removes and alters no committed record, so afterwards
\* selected_wallet() is the committed selection and get(id) is the committed
\* record of every saved id.
C16_InitKeepsCommitted ==
    [][(init /\ tables # <<>>)
         => /\ tables' = tables
            /\ \A id \in WalletIds :
                 GetResult(tables', id, "none")
                   = Ok("get", IF id \in DOMAIN saved THEN Some(saved[id]) ELSE <<>>)
            /\ SelectedWalletResult(tables', "none")
                 = Ok("selected_wallet",
                      IF chosen = NoWallet THEN <<>> ELSE Some(chosen))]_vars

C16_Witness ==
    /\ db_ret.op = "init"
    /\ db_open
    /\ saved # <<>>
    /\ chosen \in DOMAIN saved
    /\ GetResult(tables, chosen, "none") = Ok("get", Some(saved[chosen]))

\* C17: save_new is an idempotent upsert: it succeeds on an id that already
\* has a record and replaces that record, the table holds at most one record
\* per id, every other record is untouched, and saving the same metadata a
\* second time leaves the table as the first save left it.
C17_SaveIsUpsert ==
    [][\A wallet \in MetadataValues(WalletIds) :
         save_new_wallet_metadata(wallet, "none")
           => LET before == tables[WALLET_METADATA]
                  after == tables'[WALLET_METADATA]
                  key == to_string(wallet.id)
              IN  /\ db_ret'.ok
                  /\ DOMAIN after = (DOMAIN before) \cup {key}
                  /\ GetResult(tables', wallet.id, "none") = Ok("get", Some(wallet))
                  /\ Len(GetAllResult(tables', None, "none").value)
                       = Cardinality(DOMAIN after)
                  /\ \A k \in (DOMAIN before) \ {key} : after[k] = before[k]
                  /\ (key \in DOMAIN before /\ from_json(before[key]) = wallet)
                       => tables' = tables]_vars

C17_Witness ==
    /\ db_ret.op = "save_new_wallet_metadata"
    /\ db_ret.ok
    /\ overwrote = "other"
    /\ Cardinality(DOMAIN tables[WALLET_METADATA]) = 2

\* What every read of the store returns in the given committed state.
Reads(tbls) ==
    [get |-> [id \in WalletIds |-> GetResult(tbls, id, "none")],
     get_all |-> [n \in Networks \cup {None} |-> GetAllResult(tbls, n, "none")],
     selected_wallet |-> SelectedWalletResult(tbls, "none")]

\* C18: a commit is all-or-nothing: when the commit of a write fails the
\* caller gets an error and every later read returns what it returned before
\* the write; when it succeeds the write is visible to every read at once.
C18_CommitAllOrNothing ==
    [][/\ \A wallet \in MetadataValues(WalletIds) :
            /\ save_new_wallet_metadata(wallet, "commit")
                 => ~db_ret'.ok /\ db_ret'.kind = "WriteError"
                    /\ Reads(tables') = Reads(tables)
            /\ save_new_wallet_metadata(wallet, "none")
                 => /\ db_ret'.ok
                    /\ Reads(tables').get[wallet.id] = Ok("get", Some(wallet))
                    /\ wallet \in Range(Reads(tables').get_all[None].value)
                    /\ wallet \in Range(Reads(tables').get_all[wallet.network].value)
       /\ \A id \in WalletIds :
            /\ select_wallet(id, "commit")
                 => ~db_ret'.ok /\ db_ret'.kind = "WriteError"
                    /\ Reads(tables') = Reads(tables)
            /\ select_wallet(id, "none")
                 => db_ret'.ok /\ Reads(tables').selected_wallet.value = Some(id)
       /\ clear_selected_wallet("commit")
            => ~db_ret'.ok /\ db_ret'.kind = "WriteError"
               /\ Reads(tables') = Reads(tables)
       /\ clear_selected_wallet("none")
            => db_ret'.ok /\ Reads(tables').selected_wallet.value = <<>>]_vars

C18_Witness ==
    /\ db_ret.op = "save_new_wallet_metadata"
    /\ db_ret.kind = "WriteError"
    /\ saved # <<>>
    /\ chosen # NoWallet

(***************************************************************************)
(* Claims about concurrent transactions                                    *)
(***************************************************************************)
\* What the read operation of transaction r returns when it runs alone on
\* the tables tbls.
ReadOf(r, tbls) ==
    IF r.op = "get" THEN GetResult(tbls, r.arg, "none").value
    ELSE IF r.op = "selected_wallet" THEN SelectedWalletResult(tbls, "none").value
    ELSE GetAllResult(tbls, r.arg, "none").value

\* C19: snapshot isolation for readers: a read operation (get, get_all,
\* selected_wallet) that runs while write transactions run observes the
\* committed state as of its own transaction start, so every commit is seen
\* entirely or not at all, and no uncommitted mutation is seen.
C19_ReadersSeeSnapshot ==
    [][/\ \A op \in ReadOps :
            begin_read(Reader, op) => txn'[Reader].view = tables
       /\ (read_step(Reader) /\ txn'[Reader].pc = "done")
            => /\ txn'[Reader].view = txn[Reader].view
               /\ txn'[Reader].acc = ReadOf(txn[Reader], txn[Reader].view)]_vars

C19_Witness ==
    /\ txn[Reader].pc = "done"
    /\ txn[Reader].op = "get_all"
    /\ txn[Reader].acc # <<>>
    /\ txn[Reader].view # tables
    /\ txn[Reader].acc # ReadOf(txn[Reader], tables)
    /\ \E w \in Writers : txn[w].pc = "ready" /\ txn[w].view # tables

\* C20: writes are serialized and commits are linearizable: at most one
\* write transaction is open at any time, and the stored state is the result
\* of applying the committed operations one after another in commit order,
\* so no committed update is lost.
C20_WritesSerialized ==
    /\ Cardinality({t \in Threads : WriteOpen(t)}) <= 1
    /\ db_open =>
         /\ \A id \in WalletIds :
              GetResult(tables, id, "none")
                = Ok("get", IF id \in DOMAIN saved THEN Some(saved[id]) ELSE <<>>)
         /\ SelectedWalletResult(tables, "none")
              = Ok("selected_wallet", IF chosen = NoWallet THEN <<>> ELSE Some(chosen))

C20_Witness ==
    /\ saved # <<>>
    /\ chosen # NoWallet
    /\ db_ret = Ok("write", "unit")
    /\ \E w, u \in Writers :
         /\ w # u
         /\ txn[w].pc = "ready"
         /\ txn[w].op = "select_wallet"
         /\ txn[w].arg # chosen
         /\ txn[u].pc = "idle"
         /\ ~CanBeginWrite(u)

(***************************************************************************)
(* Claims about the read-only address calls and the reload of a session    *)
(***************************************************************************)
\* C21: get_current_address is idempotent: repeated calls with no
\* get_new_address in between return the identical address, the one at
\* external index 0.
C21_CurrentAddressIdempotent ==
    [][get_current_address
         => /\ wallet_ret' = Ok("get_current_address", Derive(0))
            /\ wallet_ret.op = "get_current_address" => wallet_ret' = wallet_ret]_vars

C21_Witness ==
    /\ wallet_ret = Ok("get_current_address", Derive(0))
    /\ last_revealed >= 1
    /\ used # {}

\* C22: the peek operations get_current_address() and address_at(index) have
\* no side effects: for every index they leave the highest revealed index and
\* the set of unused revealed addresses unchanged, so the result of a later
\* get_new_address is the same as without them.
C22_PeeksHaveNoSideEffects ==
    [][(get_current_address \/ \E index \in 0..MaxRevealed : address_at(index))
         => /\ last_revealed' = last_revealed
            /\ UnusedRevealed' = UnusedRevealed
            /\ NewAddressOutcome(last_revealed', used')
                 = NewAddressOutcome(last_revealed, used)]_vars

C22_Witness ==
    /\ wallet_ret.op = "address_at"
    /\ last_revealed >= 0
    /\ \E index \in 0..MaxRevealed :
         /\ index > last_revealed
         /\ wallet_ret.value = Derive(index)

\* C23: state revealed by get_new_address survives drop and reload: the
\* session try_load_persisted returns for the same id has the same highest
\* revealed index and the same unused set as the dropped session, and its
\* get_current_address equals the original's.
C23_ReloadKeepsRevealed ==
    [][drop_and_reload
         => /\ last_revealed' = last_revealed
            /\ UnusedRevealed' = UnusedRevealed
            /\ PeekOutcome(last_revealed', CurrentIndex(last_revealed')).info
                 = PeekOutcome(last_revealed, CurrentIndex(last_revealed)).info]_vars

\* C24: get_all_addresses returns one entry for every revealed external
\* index, in increasing index order from 0 to the highest revealed index,
\* also when some revealed addresses are used; a wallet with nothing revealed
\* yields the single entry for index 0, equal to get_current_address.
C24_AllAddressesListsRevealed ==
    [][get_all_addresses
         => LET entries == wallet_ret'.value
            IN  /\ wallet_ret'.ok
                /\ Len(entries) = IF last_revealed < 0 THEN 1 ELSE last_revealed + 1
                /\ \A k \in DOMAIN entries :
                     /\ entries[k].index = k - 1
                     /\ entries[k].address = AddressString(Derive(k - 1))]_vars

C25_DirectionRule ==
    type_ret.op = "project"
      => /\ type_ret.value.direction = "Outgoing" <=> type_ret.input.sent > type_ret.input.received
         /\ type_ret.value.direction # "Outgoing" => type_ret.value.direction = "Incoming"
         /\ type_ret.value.direction # "SelfTransfer"

C25_Witness ==
    /\ type_ret.op = "project"
    /\ type_ret.input.sent = type_ret.input.received
    /\ type_ret.input.sent > 0
    /\ type_ret.value.direction = "Incoming"

\* C26: amount rule of the projector: the projected amount equals received
\* when the direction is Incoming and sent for every other direction, hence
\* amount = max(sent, received) for all inputs.
C26_AmountRule ==
    type_ret.op = "project"
      => LET sent == type_ret.input.sent
             received == type_ret.input.received
         IN  /\ type_ret.value.direction = "Incoming" => type_ret.value.amount = received
             /\ type_ret.value.direction # "Incoming" => type_ret.value.amount = sent
             /\ type_ret.value.amount = IF sent > received THEN sent ELSE received

C26_Witness ==
    /\ type_ret.op = "project"
    /\ type_ret.input.sent > type_ret.input.received
    /\ type_ret.input.received > 0
    /\ type_ret.value.amount = type_ret.input.sent

\* The successor of a u32 as a number, with the carry out of 32 bits.
WideSucc(a) ==
    IF a = U32_MAX THEN [carry |-> 1, hi |-> 0, lo |-> 0]
    ELSE IF a.lo = HALF - 1 THEN [carry |-> 0, hi |-> a.hi + 1, lo |-> 0]
    ELSE [carry |-> 0, hi |-> a.hi, lo |-> a.lo + 1]

Wide(a) == [carry |-> 0, hi |-> a.hi, lo |-> a.lo]

\* C27: confirmations(tx, current_height) is 0 if tx is unconfirmed;
\* otherwise it is current_height - confirmed_height, saturating at zero,
\* plus 1, so that the confirming block counts as confirmation 1, for every
\* pair of u32 heights, also when current_height is below confirmed_height.
C27_Confirmations ==
    type_ret.op = "confirmations"
      => LET status == type_ret.input.confirmation_status
             current == type_ret.input.current_height
         IN  /\ type_ret.value.outcome = "returned"
             /\ status.kind = "Unconfirmed" => type_ret.value.value = U32_ZERO
             /\ status.kind = "Confirmed"
                  => Wide(type_ret.value.value)
                       = WideSucc(saturating_sub(current, status.block_height))

\* C30: every WalletMetadata a constructor produces with wallet_type Cold has
\* master_fingerprint present, and records with wallet_type XpubOnly report
\* can_sign() = false.
C30_ColdHasFingerprint ==
    type_ret.op \in Constructors
      => /\ type_ret.value.wallet_type = "Cold" => type_ret.value.master_fingerprint.some
         /\ type_ret.value.wallet_type = "XpubOnly" => ~can_sign(type_ret.value.wallet_type)

(***************************************************************************)
(* Claims about the errors of the table operations                         *)
(***************************************************************************)
Failed == db_ret.op # None /\ db_ret.op \notin {"init", "exit"} /\ ~db_ret.ok

UnusedRunEndingAt(h) ==
    IF h \in used THEN 0
    ELSE IF \E i \in used : i < h THEN h - MaxOf({i \in used : i < h})
    ELSE h + 1

\* C31: in every reachable state, for every index handed out by
\* get_new_address, the run of consecutive unused revealed indices ending at
\* it is shorter than GAP_LIMIT = 30, and a scan from index 0 with stop gap
\* GAP_LIMIT over the chain reaches funds paid to it.
C31_InsideGapWindow ==
    \A h \in 0..last_revealed :
        Derive(h) \in handed
          => /\ UnusedRunEndingAt(h) < GAP_LIMIT
             /\ h \in full_scan(funded \cup {h}, GAP_LIMIT)

\* An address beyond the first MAX_ADDRESSES was handed out after a sync had
\* marked an address used, and its run is as long as the pool allows.
C31_Witness ==
    \E h \in 0..last_revealed :
        /\ Derive(h) \in handed
        /\ h >= MAX_ADDRESSES
        /\ used # {}
        /\ UnusedRunEndingAt(h) = MAX_ADDRESSES

\* C39: a sync that fails when the client is created or during the full scan
\* (also by cancellation or timeout) returns an error and leaves the engine
\* state - revealed indices, used set, balance - as it was before the call.
C39_FailedSyncChangesNothing ==
    [][\A step \in {"client_failed", "scan_failed"} :
         sync_full_scan(step)
           => /\ ~wallet_ret'.ok
              /\ last_revealed' = last_revealed
              /\ used' = used
              /\ balance' = balance]_vars

\* The scan failed while the chain held a payment the engine had not seen,
\* which an applied update would have brought in.
C39_Witness ==
    /\ wallet_ret = Err("sync", "Generic", "scan_failed")
    /\ funded \ used # {}
    /\ \E i \in funded : i > last_revealed

\* C32: with the collecting step and the revealing step of the callers of
\* one wallet executed under mutual exclusion, at most MAX_ADDRESSES revealed
\* addresses are unused in every interleaving, and at most one call is between
\* its two steps; without it, a state with more than MAX_ADDRESSES of them is
\* reachable (C32_Witness).
C32_ExclusiveCallsKeepBound ==
    exclusive
      => /\ Cardinality(UnusedRevealed) <= MAX_ADDRESSES
         /\ Cardinality({t \in Callers : callers[t].pc = "collected"}) <= 1

\* Two callers that did not exclude each other both collected fewer than
\* MAX_ADDRESSES unused addresses and both revealed.
C32_Witness ==
    /\ ~exclusive
    /\ Cardinality(UnusedRevealed) > MAX_ADDRESSES
    /\ addr_ret.branch = "reveal"
    /\ addr_ret.index = MAX_ADDRESSES

(***************************************************************************)
(* Loaded sessions and the stored metadata                                 *)
(***************************************************************************)
\* C33: the session a successful load_existing_wallet(id, ..) inserts carries
\* the metadata committed for id in the Wallet Metadata Table: the same
\* created_at, network and name as the saved record.
C33_LoadedMetadataIsStored ==
    [][\A id \in WalletIds, network \in Networks, io \in IoOutcomes :
         (load_existing_wallet(id, network, io) /\ mgr_ret'.ok /\ id \in DOMAIN saved)
           => /\ wallets'[id].metadata.created_at = saved[id].created_at
              /\ wallets'[id].metadata.network = saved[id].network
              /\ wallets'[id].metadata.name = <<saved[id].name>>]_vars

\* C34: select_wallet(id) leaves the Wallet Metadata Table as it is and, when
\* nothing fails, succeeds and stores id as the selection whether or not the
\* table holds a record for id; save_new_wallet_metadata leaves the global
\* configuration table, and with it the selection, as it is.
C34_SelectionIndependentOfRecords ==
    [][/\ \A id \in WalletIds, fail \in WriteFailPoints :
            select_wallet(id, fail)
              => /\ tables'[WALLET_METADATA] = tables[WALLET_METADATA]
                 /\ fail = "none"
                      => /\ db_ret' = Ok("select_wallet", "unit")
                         /\ SELECTED_WALLET_ID \in DOMAIN tables'[GLOBAL_CONFIG]
                         /\ tables'[GLOBAL_CONFIG][SELECTED_WALLET_ID] = to_string(id)
       /\ \A wallet \in MetadataValues(WalletIds), fail \in WriteFailPoints :
            save_new_wallet_metadata(wallet, fail)
              => tables'[GLOBAL_CONFIG] = tables[GLOBAL_CONFIG]]_vars

\* The selection names a wallet that has no record, while another wallet has
\* one.
C34_Witness ==
    /\ db_ret = Ok("select_wallet", "unit")
    /\ chosen # NoWallet
    /\ tables[GLOBAL_CONFIG][SELECTED_WALLET_ID] = to_string(chosen)
    /\ to_string(chosen) \notin DOMAIN tables[WALLET_METADATA]
    /\ tables[WALLET_METADATA] # <<>>

(***************************************************************************)
(* The branches of get_new_address                                         *)
(***************************************************************************)
\* C35: in every reachable state, whenever the collected unused count is not
\* below MAX_ADDRESSES the collected list is non-empty, and no call has taken
\* the fallback branch, the second reveal_next_address after the cycle check.
C35_FallbackUnreachable ==
    /\ addr_ret.branch # "fallback"
    /\ ~BelowMax(CollectUnused(last_revealed, used))
         => CollectUnused(last_revealed, used) # <<>>

\* The collected count is not below MAX_ADDRESSES, and the call made on such a
\* list took the cycle branch.
C35_Witness ==
    /\ ~BelowMax(CollectUnused(last_revealed, used))
    /\ CollectUnused(last_revealed, used) # <<>>
    /\ addr_ret.branch = "cycle"
    /\ Cardinality(used) = MaxUsed

\* C37 as stated: while MAX_ADDRESSES revealed addresses are unused, every
\* get_new_address call after the first returns the address the previous call
\* returned and changes no wallet state.
C37_SameAsPreviousCall ==
    [][(get_new_address /\ calls > 0 /\ Cardinality(UnusedRevealed) = MAX_ADDRESSES)
         => /\ addr_ret'.address = addr_ret.address
            /\ last_revealed' = last_revealed
            /\ used' = used]_vars

\* C37, amended: while MAX_ADDRESSES revealed addresses are unused, every
\* get_new_address call changes no wallet state and returns the lowest unused
\* address, which is the address of the previous call when that call cycled
\* too.
C37_CyclingIdempotent ==
    [][(get_new_address /\ Cardinality(UnusedRevealed) = MAX_ADDRESSES)
         => /\ last_revealed' = last_revealed
            /\ used' = used
            /\ addr_ret'.branch = "cycle"
            /\ addr_ret'.address = Derive(MinOf(UnusedRevealed))
            /\ addr_ret.branch = "cycle" => addr_ret'.address = addr_ret.address]_vars

\* Two calls in a row cycled on a wallet none of whose addresses is used.
C37_Witness ==
    /\ calls = MAX_ADDRESSES + 2
    /\ used = {}
    /\ last_revealed = MAX_ADDRESSES - 1
    /\ addr_ret = [branch |-> "cycle", index |-> 0, address |-> Derive(0)]

(***************************************************************************)
(* Usage inference after funds were spent                                  *)
(***************************************************************************)
\* C36: in every reachable state is_address_used(a) returns true for every
\* revealed address the engine has marked used and false for every revealed
\* address that has received nothing, also when the funds received were spent
\* and the total balance is zero again.
C36_UsedMeansReceivedFunds ==
    [][\A index \in 0..MaxRevealed :
         (is_address_used(Derive(index)) /\ index <= last_revealed)
           => wallet_ret' = Ok("is_address_used", index \in used)]_vars

(***************************************************************************)
(* Loading and the active pointer                                          *)
(***************************************************************************)
\* C38: load_existing_wallet never changes the active pointer; when it
\* succeeds it only inserts or replaces the session of the id, and when it
\* fails it leaves the session map as it is. The pointer changes only in
\* add_wallet and set_active_wallet, and while it is unset active_wallet
\* fails with "No active wallet", whatever sessions were loaded.
C38_LoadKeepsActivePointer ==
    [][/\ \A id \in WalletIds, network \in Networks, io \in IoOutcomes :
            load_existing_wallet(id, network, io)
              => /\ active_wallet_id' = active_wallet_id
                 /\ mgr_ret'.ok
                      => /\ DOMAIN wallets' = (DOMAIN wallets) \cup {id}
                         /\ \A k \in (DOMAIN wallets) \ {id} : wallets'[k] = wallets[k]
                 /\ ~mgr_ret'.ok => wallets' = wallets
       /\ active_wallet_id' # active_wallet_id
            => \/ \E wallet \in WalletValues(WalletIds) : add_wallet(wallet)
               \/ \E id \in WalletIds : set_active_wallet(id)
       /\ (active_wallet /\ active_wallet_id = NoWallet)
            => /\ ~mgr_ret'.ok
               /\ mgr_ret'.kind = "Generic"
               /\ mgr_ret'.value = "No active wallet"]_vars

\* Every id has a loaded session, none was added or made active, and
\* active_wallet failed.
C38_Witness ==
    /\ DOMAIN wallets = WalletIds
    /\ \A k \in DOMAIN wallets : wallets[k].metadata.created_at = "t_load"
    /\ active_wallet_id = NoWallet
    /\ mgr_ret.op = "active_wallet"
    /\ ~mgr_ret.ok
    /\ mgr_ret.kind = "Generic"

(***************************************************************************)
(* Width of the confirmation count                                         *)
(***************************************************************************)
\* C40: for all u32 heights, 0 and 2^32 - 1 included, confirmations neither
\* panics nor wraps: it returns, and for a confirmed transaction the count
\* returned is at least 1, never the 0 a wrapped sum gives.
C40_NoU32Overflow ==
    type_ret.op = "confirmations"
      => /\ type_ret.value.outcome # "panic"
         /\ type_ret.input.confirmation_status.kind = "Confirmed"
              => U32Less(U32_ZERO, type_ret.value.value)

====
